---- MODULE Spec2Model ----
(***************************************************************************)
(* Model of backend/squat_detector.py: the SquatDetector repetition state  *)
(* machine, its per-repetition accounting, the real-time feedback and the  *)
(* session summary; and of the websocket handler of backend/main.py that   *)
(* drives one detector per session.                                        *)
(*                                                                         *)
(* Numbers.  Angles are the averaged joint angles detect_squat computes    *)
(* (avg_knee_angle, avg_hip_angle, back_lean), in whole degrees.  The hip  *)
(* depth ratio is kept in hundredths (0.85 is 85).  A frame is the record  *)
(* of what detect_squat reads from the landmark list: its length and the   *)
(* four measurements the geometry helpers derive from it.                  *)
(***************************************************************************)
EXTENDS Integers, Sequences, FiniteSets, TLC

VARIABLES
    detector,   \* the SquatDetector instance: one field per attribute
    fired,      \* branch of the state machine the last detect_squat call took
    hist        \* history of the run, kept only to state the properties

vars == <<detector, fired, hist>>

(***************************************************************************)
(* Class constants, squat_detector.py lines 44-56 and 225.                 *)
(***************************************************************************)
STANDING_KNEE_THRESHOLD == 130
SQUATTING_KNEE_THRESHOLD == 120
KNEE_PERFECT_MIN == 50
KNEE_PERFECT_MAX == 110
HIP_PERFECT_MIN == 60
HIP_PERFECT_MAX == 120
MIN_HIP_DEPTH_RATIO == 85
BACK_LEAN_MIN == 0
BACK_LEAN_MAX == 45
SUFFICIENT_DEPTH_BELOW == 110
INITIAL_LOWEST_KNEE == 180
NUM_LANDMARKS == 33
LOG_EVERY == 30

LEFT_SHOULDER == 11
RIGHT_SHOULDER == 12
LEFT_HIP == 23
RIGHT_HIP == 24
LEFT_KNEE == 25
RIGHT_KNEE == 26
LEFT_ANKLE == 27
RIGHT_ANKLE == 28

(***************************************************************************)
(* Bounds of the model: the number of detect_squat calls between two       *)
(* resets, under Spec and under SpecRun.                                   *)
(***************************************************************************)
MaxFrames == 5
MaxRunFrames == 4
MaxPairFrames == 4
MaxSocketFrames == 4

(***************************************************************************)
(* Inputs.  The knee values sit on and around every threshold the code     *)
(* compares against: 45 < 50 <= 100 <= 110 < 120 <= 120 < 130 <= 130.      *)
(* Hip angle, back lean and depth ratio each take one value inside and one *)
(* outside their range.  AllMeasurements is every combination; the frames  *)
(* fed to the detector (Measurements) are those with at most one of hip    *)
(* angle, back lean and depth ratio outside its range, and those with hip  *)
(* angle and depth ratio both outside (three issues at once with a bad     *)
(* knee angle).                                                            *)
(***************************************************************************)
KneeAngles == {45, 100, 110, 120, 130}
HipAngles == {120, 125}
BackLeans == {45, 50}
HipDepths == {80, 85}
LandmarkCounts == {0, 32, 33}

AllMeasurements ==
    [knee : KneeAngles, hip : HipAngles, back : BackLeans, depth : HipDepths]

OffCount(m) ==
    (IF m.hip = 125 THEN 1 ELSE 0) + (IF m.back = 50 THEN 1 ELSE 0)
        + (IF m.depth = 80 THEN 1 ELSE 0)

Measurements ==
    {m \in AllMeasurements :
        OffCount(m) <= 1 \/ (m.hip = 125 /\ m.depth = 80 /\ m.back = 45)}

NoMeasurement == [knee |-> 0, hip |-> 0, back |-> 0, depth |-> 0]

ValidFrames(ms) == {[len |-> NUM_LANDMARKS, m |-> m] : m \in ms}

InvalidFrames ==
    {[len |-> n, m |-> NoMeasurement] : n \in LandmarkCounts \ {NUM_LANDMARKS}}

Frames == ValidFrames(Measurements) \cup InvalidFrames

AllFrames == ValidFrames(AllMeasurements) \cup InvalidFrames

None == <<>>
Some(v) == <<v>>

(***************************************************************************)
(* __init__                                                                *)
(***************************************************************************)
NewDetector ==
    [squat_count |-> 0, total_attempts |-> 0,
     correct_squats |-> 0, missed_squats |-> 0,
     knee_correct_frames |-> 0, hip_correct_frames |-> 0,
     back_correct_frames |-> 0, total_frames_in_correct_squats |-> 0,
     current_squat_knee_frames |-> 0, current_squat_hip_frames |-> 0,
     current_squat_back_frames |-> 0, current_squat_total_frames |-> 0,
     was_standing |-> TRUE, is_currently_squatting |-> FALSE,
     lowest_knee_angle_this_squat |-> INITIAL_LOWEST_KNEE,
     best_form_this_squat |-> FALSE,
     last_squat_analysis |-> None,
     last_squat_was_perfect |-> FALSE, squat_just_completed |-> FALSE,
     frame_count |-> 0, last_log_frame |-> 0]

(***************************************************************************)
(* The form checks of detect_squat.                                        *)
(***************************************************************************)
KneesGood_UpToStanding(knee) == KNEE_PERFECT_MIN <= knee /\ knee <= STANDING_KNEE_THRESHOLD

KneesGood(knee) == KNEE_PERFECT_MIN <= knee /\ knee <= KNEE_PERFECT_MAX
HipsGood(hip) == HIP_PERFECT_MIN <= hip /\ hip <= HIP_PERFECT_MAX
DepthGood(depth) == depth >= MIN_HIP_DEPTH_RATIO
BackGood(back) == BACK_LEAN_MIN <= back /\ back <= BACK_LEAN_MAX

LowerBodyPerfect_WithBack(m) == KneesGood(m.knee) /\ HipsGood(m.hip) /\ DepthGood(m.depth) /\ BackGood(m.back)

LowerBodyPerfect(m) == KneesGood(m.knee) /\ HipsGood(m.hip) /\ DepthGood(m.depth)

(***************************************************************************)
(* _generate_checkpoints                                                   *)
(***************************************************************************)
GenerateCheckpoints(shoulders_good, hips_good, knees_good, ankles_good) ==
    [j \in {LEFT_SHOULDER, RIGHT_SHOULDER, LEFT_HIP, RIGHT_HIP,
            LEFT_KNEE, RIGHT_KNEE, LEFT_ANKLE, RIGHT_ANKLE} |->
        CASE j \in {LEFT_SHOULDER, RIGHT_SHOULDER} -> ~shoulders_good
          [] j \in {LEFT_HIP, RIGHT_HIP} -> ~hips_good
          [] j \in {LEFT_KNEE, RIGHT_KNEE} -> ~knees_good
          [] j \in {LEFT_ANKLE, RIGHT_ANKLE} -> ~ankles_good]

(***************************************************************************)
(* _generate_feedback: ', '.join(issues[:2]) is JoinComma(FirstTwo(...)).  *)
(***************************************************************************)
RECURSIVE JoinComma(_)
JoinComma(labels) ==
    IF Len(labels) = 0 THEN ""
    ELSE IF Len(labels) = 1 THEN labels[1]
    ELSE labels[1] \o ", " \o JoinComma(Tail(labels))

FirstTwo_All(labels) == labels

FirstTwo(labels) == SubSeq(labels, 1, IF Len(labels) < 2 THEN Len(labels) ELSE 2)

Issues_NoDepth(hips_good, knees_good, ankles_good) ==
    (IF ~hips_good THEN <<"Hips">> ELSE <<>>)
        \o (IF ~knees_good THEN <<"Knees">> ELSE <<>>)

Issues(hips_good, knees_good, ankles_good) ==
    (IF ~hips_good THEN <<"Hips">> ELSE <<>>)
        \o (IF ~knees_good THEN <<"Knees">> ELSE <<>>)
        \o (IF ~ankles_good THEN <<"Depth">> ELSE <<>>)

GenerateFeedback(is_perfect, shoulders_good, hips_good, knees_good, ankles_good, is_squatting) ==
    IF is_perfect /\ is_squatting THEN "Perfect form!"
    ELSE IF is_squatting THEN
        IF Issues(hips_good, knees_good, ankles_good) # <<>>
        THEN "Fix: " \o JoinComma(FirstTwo(Issues(hips_good, knees_good, ankles_good)))
        ELSE "Keep going"
    ELSE "Ready to squat"

(***************************************************************************)
(* _get_empty_analysis                                                     *)
(***************************************************************************)
GetEmptyAnalysis(feedback) ==
    [is_squat_position |-> FALSE, knee_angle |-> 0, hip_angle |-> 0,
     back_angle |-> 0, hip_depth |-> 0, form_feedback |-> feedback,
     checkpoint_results |-> <<>>]

(***************************************************************************)
(* detect_squat, in the order of its statements.                           *)
(***************************************************************************)
FrameValid_OffByOne(landmarks) ==
    ~(landmarks.len = 0 \/ landmarks.len < NUM_LANDMARKS - 1)

FrameValid(landmarks) == ~(landmarks.len = 0 \/ landmarks.len < NUM_LANDMARKS)

Counted(d) == [d EXCEPT !.frame_count = @ + 1]

\* "Log every 30 frames": the only statement that writes last_log_frame.
Logged(d) ==
    IF d.frame_count - d.last_log_frame >= LOG_EVERY
    THEN [d EXCEPT !.last_log_frame = d.frame_count]
    ELSE d

\* "Track performance during squat"
Tracked_TotalWhenKneesGood(d, m) ==
    IF d.is_currently_squatting
    THEN [d EXCEPT
            !.current_squat_total_frames = IF KneesGood(m.knee) THEN @ + 1 ELSE @,
            !.current_squat_knee_frames = IF KneesGood(m.knee) THEN @ + 1 ELSE @,
            !.current_squat_hip_frames =
                IF HipsGood(m.hip) /\ DepthGood(m.depth) THEN @ + 1 ELSE @,
            !.current_squat_back_frames = IF BackGood(m.back) THEN @ + 1 ELSE @,
            !.lowest_knee_angle_this_squat = IF m.knee < @ THEN m.knee ELSE @,
            !.best_form_this_squat = IF LowerBodyPerfect(m) THEN TRUE ELSE @]
    ELSE d

Tracked(d, m) ==
    IF d.is_currently_squatting
    THEN [d EXCEPT
            !.current_squat_total_frames = @ + 1,
            !.current_squat_knee_frames = IF KneesGood(m.knee) THEN @ + 1 ELSE @,
            !.current_squat_hip_frames =
                IF HipsGood(m.hip) /\ DepthGood(m.depth) THEN @ + 1 ELSE @,
            !.current_squat_back_frames = IF BackGood(m.back) THEN @ + 1 ELSE @,
            !.lowest_knee_angle_this_squat = IF m.knee < @ THEN m.knee ELSE @,
            !.best_form_this_squat = IF LowerBodyPerfect(m) THEN TRUE ELSE @]
    ELSE d

IsStanding_Strict(knee) == knee > STANDING_KNEE_THRESHOLD

IsStanding(knee) == knee >= STANDING_KNEE_THRESHOLD
IsSquatting_Inclusive(knee) == knee <= SQUATTING_KNEE_THRESHOLD

IsSquatting(knee) == knee < SQUATTING_KNEE_THRESHOLD

\* The if / elif / elif chain of the state machine: which branch runs.
Transition(d, knee) ==
    IF d.was_standing /\ IsSquatting(knee) THEN "start"
    ELSE IF ~d.was_standing /\ IsStanding(knee) /\ d.is_currently_squatting
         THEN "complete"
    ELSE IF IsStanding(knee) THEN "resync"
    ELSE "none"

Started_StillStanding(d, knee) ==
    [d EXCEPT
        !.is_currently_squatting = TRUE,
        !.lowest_knee_angle_this_squat = knee,
        !.best_form_this_squat = FALSE,
        !.current_squat_total_frames = 0,
        !.current_squat_knee_frames = 0,
        !.current_squat_hip_frames = 0,
        !.current_squat_back_frames = 0]

Started_KeepsCounters(d, knee) ==
    [d EXCEPT
        !.is_currently_squatting = TRUE,
        !.was_standing = FALSE,
        !.lowest_knee_angle_this_squat = knee,
        !.best_form_this_squat = FALSE]

Started(d, knee) ==
    [d EXCEPT
        !.is_currently_squatting = TRUE,
        !.was_standing = FALSE,
        !.lowest_knee_angle_this_squat = knee,
        !.best_form_this_squat = FALSE,
        !.current_squat_total_frames = 0,
        !.current_squat_knee_frames = 0,
        !.current_squat_hip_frames = 0,
        !.current_squat_back_frames = 0]

SufficientDepth_Inclusive(d) ==
    d.lowest_knee_angle_this_squat <= SUFFICIENT_DEPTH_BELOW

SufficientDepth(d) == d.lowest_knee_angle_this_squat < SUFFICIENT_DEPTH_BELOW

IsPerfectSquat_EveryFrame(d) == d.current_squat_knee_frames = d.current_squat_total_frames /\ SufficientDepth(d)

IsPerfectSquat(d) == d.best_form_this_squat /\ SufficientDepth(d)

CountedPerfect(d) ==
    [d EXCEPT
        !.squat_count = @ + 1,
        !.correct_squats = @ + 1,
        !.last_squat_was_perfect = TRUE,
        !.total_frames_in_correct_squats = @ + d.current_squat_total_frames,
        !.knee_correct_frames = @ + d.current_squat_knee_frames,
        !.hip_correct_frames = @ + d.current_squat_hip_frames,
        !.back_correct_frames = @ + d.current_squat_back_frames]

CountedImperfect_Accumulates(d) ==
    [d EXCEPT
        !.missed_squats = @ + 1,
        !.last_squat_was_perfect = FALSE,
        !.total_frames_in_correct_squats = @ + d.current_squat_total_frames,
        !.knee_correct_frames = @ + d.current_squat_knee_frames,
        !.hip_correct_frames = @ + d.current_squat_hip_frames,
        !.back_correct_frames = @ + d.current_squat_back_frames]

CountedImperfect_CountsSquat(d) ==
    [d EXCEPT !.missed_squats = @ + 1, !.squat_count = @ + 1,
              !.last_squat_was_perfect = FALSE]

CountedImperfect(d) ==
    [d EXCEPT !.missed_squats = @ + 1, !.last_squat_was_perfect = FALSE]

Evaluated(d) == IF IsPerfectSquat(d) THEN CountedPerfect(d) ELSE CountedImperfect(d)

Completed_StillSquatting(d) ==
    Evaluated([d EXCEPT !.total_attempts = @ + 1, !.squat_just_completed = TRUE])

Completed_NotStanding(d) ==
    Evaluated([d EXCEPT
        !.is_currently_squatting = FALSE,
        !.total_attempts = @ + 1,
        !.squat_just_completed = TRUE])

Completed(d) ==
    Evaluated([d EXCEPT
        !.is_currently_squatting = FALSE,
        !.was_standing = TRUE,
        !.total_attempts = @ + 1,
        !.squat_just_completed = TRUE])

Resynced(d) == [d EXCEPT !.was_standing = TRUE, !.is_currently_squatting = FALSE]

Transitioned(d, knee) ==
    CASE Transition(d, knee) = "start" -> Started(d, knee)
      [] Transition(d, knee) = "complete" -> Completed(d)
      [] Transition(d, knee) = "resync" -> Resynced(d)
      [] OTHER -> d

\* "Generate checkpoints and feedback", with the flag as the transition left it.
Analysis_HipsAlone(d, m) ==
    [is_squat_position |-> LowerBodyPerfect(m),
     knee_angle |-> m.knee, hip_angle |-> m.hip,
     back_angle |-> m.back, hip_depth |-> m.depth,
     form_feedback |->
        GenerateFeedback(LowerBodyPerfect(m), BackGood(m.back), HipsGood(m.hip),
                         KneesGood(m.knee), DepthGood(m.depth),
                         d.is_currently_squatting),
     checkpoint_results |->
        GenerateCheckpoints(BackGood(m.back), HipsGood(m.hip),
                            KneesGood(m.knee), DepthGood(m.depth))]

Analysis(d, m) ==
    [is_squat_position |-> LowerBodyPerfect(m),
     knee_angle |-> m.knee, hip_angle |-> m.hip,
     back_angle |-> m.back, hip_depth |-> m.depth,
     form_feedback |->
        GenerateFeedback(LowerBodyPerfect(m), BackGood(m.back), HipsGood(m.hip),
                         KneesGood(m.knee), DepthGood(m.depth),
                         d.is_currently_squatting),
     checkpoint_results |->
        GenerateCheckpoints(BackGood(m.back), HipsGood(m.hip) /\ DepthGood(m.depth),
                            KneesGood(m.knee), DepthGood(m.depth))]

Stored(d, m) == [d EXCEPT !.last_squat_analysis = Some(Analysis(d, m))]

DetectSquat_TransitionFirst(d, landmarks) ==
    IF ~FrameValid(landmarks) THEN Counted(d)
    ELSE Stored(Tracked(Transitioned(Logged(Counted(d)), landmarks.m.knee),
                        landmarks.m),
                landmarks.m)

DetectSquat_AnalysisFirst(d, landmarks) ==
    IF ~FrameValid(landmarks) THEN Counted(d)
    ELSE [Transitioned(Tracked(Logged(Counted(d)), landmarks.m), landmarks.m.knee)
            EXCEPT !.last_squat_analysis =
                Some(Analysis(Tracked(Logged(Counted(d)), landmarks.m), landmarks.m))]

\* The detector after detect_squat(landmarks).
DetectSquat(d, landmarks) ==
    IF ~FrameValid(landmarks) THEN Counted(d)
    ELSE Stored(Transitioned(Tracked(Logged(Counted(d)), landmarks.m),
                             landmarks.m.knee),
                landmarks.m)

\* What detect_squat(landmarks) returns.
DetectSquatResult(d, landmarks) ==
    IF ~FrameValid(landmarks) THEN GetEmptyAnalysis("No pose detected")
    ELSE DetectSquat(d, landmarks).last_squat_analysis[1]

\* The branch detect_squat(landmarks) takes.
DetectSquatBranch(d, landmarks) ==
    IF ~FrameValid(landmarks) THEN "invalid"
    ELSE Transition(Tracked(Logged(Counted(d)), landmarks.m), landmarks.m.knee)

(***************************************************************************)
(* has_squat_just_completed, was_last_squat_perfect, get_squat_count,      *)
(* get_feedback_data, reset_squat_count.                                   *)
(***************************************************************************)
HasSquatJustCompleted_NoClear(d) == d

HasSquatJustCompleted_ClearsPerfect(d) == [d EXCEPT !.squat_just_completed = FALSE, !.last_squat_was_perfect = FALSE]

HasSquatJustCompleted(d) == [d EXCEPT !.squat_just_completed = FALSE]
HasSquatJustCompletedResult(d) == d.squat_just_completed

WasLastSquatPerfect(d) == d.last_squat_was_perfect

GetSquatCount(d) == d.squat_count

Percentage_Rounded(good, total) == IF total > 0 THEN (good * 100 + total \div 2) \div total ELSE 0

Percentage(good, total) == IF total > 0 THEN (good * 100) \div total ELSE 0

GetFeedbackData(d) ==
    [total |-> d.total_attempts,
     correct |-> d.correct_squats,
     missed |-> d.missed_squats,
     kneePercentage |->
        Percentage(d.knee_correct_frames, d.total_frames_in_correct_squats),
     hipPercentage |->
        Percentage(d.hip_correct_frames, d.total_frames_in_correct_squats),
     backPercentage |->
        Percentage(d.back_correct_frames, d.total_frames_in_correct_squats),
     kneeCorrectFrames |-> d.knee_correct_frames,
     hipCorrectFrames |-> d.hip_correct_frames,
     backCorrectFrames |-> d.back_correct_frames,
     totalFramesInCorrectSquats |-> d.total_frames_in_correct_squats]

\* _determine_bad_squat_feedback
DetermineBadSquatFeedback_Strict(d) ==
    IF d.last_squat_analysis = None
    THEN "Please adjust your form"
    ELSE LET analysis == d.last_squat_analysis[1] IN
         IF d.lowest_knee_angle_this_squat > SUFFICIENT_DEPTH_BELOW
         THEN "Go deeper. Bend your knees more"
         ELSE IF ~(KNEE_PERFECT_MIN <= analysis.knee_angle
                   /\ analysis.knee_angle <= KNEE_PERFECT_MAX)
         THEN "Please adjust your form. Check your knee position"
         ELSE IF ~(HIP_PERFECT_MIN <= analysis.hip_angle
                   /\ analysis.hip_angle <= HIP_PERFECT_MAX)
         THEN "Please adjust your form. Push your hips back"
         ELSE IF analysis.hip_depth < MIN_HIP_DEPTH_RATIO
         THEN "Please adjust your form. Go deeper"
         ELSE "Please adjust your form"

DetermineBadSquatFeedback_HipsFirst(d) ==
    IF d.last_squat_analysis = None
    THEN "Please adjust your form"
    ELSE LET analysis == d.last_squat_analysis[1] IN
         IF d.lowest_knee_angle_this_squat >= SUFFICIENT_DEPTH_BELOW
         THEN "Go deeper. Bend your knees more"
         ELSE IF ~(HIP_PERFECT_MIN <= analysis.hip_angle
                   /\ analysis.hip_angle <= HIP_PERFECT_MAX)
         THEN "Please adjust your form. Push your hips back"
         ELSE IF ~(KNEE_PERFECT_MIN <= analysis.knee_angle
                   /\ analysis.knee_angle <= KNEE_PERFECT_MAX)
         THEN "Please adjust your form. Check your knee position"
         ELSE IF analysis.hip_depth < MIN_HIP_DEPTH_RATIO
         THEN "Please adjust your form. Go deeper"
         ELSE "Please adjust your form"

DetermineBadSquatFeedback(d) ==
    IF d.last_squat_analysis = None
    THEN "Please adjust your form"
    ELSE LET analysis == d.last_squat_analysis[1] IN
         IF d.lowest_knee_angle_this_squat >= SUFFICIENT_DEPTH_BELOW
         THEN "Go deeper. Bend your knees more"
         ELSE IF ~(KNEE_PERFECT_MIN <= analysis.knee_angle
                   /\ analysis.knee_angle <= KNEE_PERFECT_MAX)
         THEN "Please adjust your form. Check your knee position"
         ELSE IF ~(HIP_PERFECT_MIN <= analysis.hip_angle
                   /\ analysis.hip_angle <= HIP_PERFECT_MAX)
         THEN "Please adjust your form. Push your hips back"
         ELSE IF analysis.hip_depth < MIN_HIP_DEPTH_RATIO
         THEN "Please adjust your form. Go deeper"
         ELSE "Please adjust your form"

\* The five phrases random.choice picks from, each with the count in it.
PerfectPhrases(d) ==
    {"Great job! Perfect squat! " \o ToString(d.squat_count),
     "Nice form! Keep going! " \o ToString(d.squat_count),
     "Excellent squat, well done! " \o ToString(d.squat_count),
     "Perfect! That's " \o ToString(d.squat_count),
     "Amazing form! " \o ToString(d.squat_count) \o " squats"}

\* get_squat_completion_feedback: the strings the call can return.
GetSquatCompletionFeedbackResults(d, was_perfect) ==
    IF was_perfect THEN PerfectPhrases(d) ELSE {DetermineBadSquatFeedback(d)}

ResetSquatCount_KeepsStateMachine(d) ==
    [d EXCEPT
        !.squat_count = 0, !.total_attempts = 0,
        !.correct_squats = 0, !.missed_squats = 0,
        !.knee_correct_frames = 0, !.hip_correct_frames = 0,
        !.back_correct_frames = 0, !.total_frames_in_correct_squats = 0,
        !.current_squat_knee_frames = 0, !.current_squat_hip_frames = 0,
        !.current_squat_back_frames = 0, !.current_squat_total_frames = 0,
        !.last_squat_analysis = None,
        !.last_squat_was_perfect = FALSE, !.squat_just_completed = FALSE,
        !.frame_count = 0, !.last_log_frame = 0]

ResetSquatCount(d) ==
    [d EXCEPT
        !.squat_count = 0, !.total_attempts = 0,
        !.correct_squats = 0, !.missed_squats = 0,
        !.knee_correct_frames = 0, !.hip_correct_frames = 0,
        !.back_correct_frames = 0, !.total_frames_in_correct_squats = 0,
        !.current_squat_knee_frames = 0, !.current_squat_hip_frames = 0,
        !.current_squat_back_frames = 0, !.current_squat_total_frames = 0,
        !.last_squat_analysis = None,
        !.last_squat_was_perfect = FALSE, !.squat_just_completed = FALSE,
        !.was_standing = TRUE, !.is_currently_squatting = FALSE,
        !.lowest_knee_angle_this_squat = INITIAL_LOWEST_KNEE,
        !.best_form_this_squat = FALSE,
        !.frame_count = 0, !.last_log_frame = 0]

(***************************************************************************)
(* History, kept only to state the properties; the detector reads none of  *)
(* it.  A repetition opens at a call that takes the start branch and       *)
(* closes at the next call that takes the complete branch; its frames are  *)
(* the valid frames from the one to the other.  The counts are kept twice: *)
(* since construction (run) and since construction or the last reset       *)
(* (epoch).                                                                *)
(***************************************************************************)
MaxStartsTracked == 2

Bump(n) == IF n < MaxStartsTracked THEN n + 1 ELSE n

NoReset == [done |-> FALSE, squatting |-> FALSE, pending |-> FALSE]

Counts ==
    [starts_pending |-> 0,          \* starts since the last complete
     starts_closed |-> 0,           \* that count, as the last complete found it
     completed_since_poll |-> FALSE]  \* a complete since the last poll

Repetition ==
    [open |-> FALSE,            \* started and not yet completed
     start_perfect |-> FALSE,   \* its start frame met the three criteria
     later_perfect |-> FALSE,   \* a frame after its start frame did
     min_knee |-> 180,          \* lowest knee angle over its frames
     later |-> <<0, 0, 0, 0>>]  \* frames after its start frame: good knees, good hips and depth, good back, all

NewHistory ==
    [run |-> Counts,
     epoch |-> Counts,
     rep |-> Repetition,
     band_only |-> TRUE,        \* only valid frames in [120, 130) since construction or reset
     last |-> None,             \* the measurements of the last valid frame since then
     last_branch |-> "-",       \* the branch that frame took
     reset_from |-> NoReset]    \* the state reset was called in, until the next frame

\* The criteria as the specification words them.
MeetsCriteria(m) ==
    /\ 50 <= m.knee /\ m.knee <= 110
    /\ 60 <= m.hip /\ m.hip <= 120
    /\ m.depth >= 85

InBand(knee) == 120 <= knee /\ knee < 130

\* What one frame adds to the frame counts of a repetition.
FrameMarks(m) ==
    <<IF 50 <= m.knee /\ m.knee <= 110 THEN 1 ELSE 0,
      IF 60 <= m.hip /\ m.hip <= 120 /\ m.depth >= 85 THEN 1 ELSE 0,
      IF 0 <= m.back /\ m.back <= 45 THEN 1 ELSE 0,
      1>>

AddMarks(counts, m) == [i \in 1..4 |-> counts[i] + FrameMarks(m)[i]]

CountStart(c) == [c EXCEPT !.starts_pending = Bump(@)]

CountComplete(c) ==
    [c EXCEPT !.starts_closed = c.starts_pending,
              !.starts_pending = 0,
              !.completed_since_poll = TRUE]

CountPoll(c) == [c EXCEPT !.completed_since_poll = FALSE]

RepetitionAfter(r, branch, m) ==
    CASE branch = "start" ->
            [open |-> TRUE, start_perfect |-> MeetsCriteria(m),
             later_perfect |-> FALSE, min_knee |-> m.knee,
             later |-> <<0, 0, 0, 0>>]
      [] branch = "complete" ->
            [r EXCEPT !.open = FALSE,
                      !.later_perfect = @ \/ MeetsCriteria(m),
                      !.min_knee = IF m.knee < @ THEN m.knee ELSE @,
                      !.later = AddMarks(@, m)]
      [] branch = "invalid" -> r
      [] OTHER ->
            [r EXCEPT !.later_perfect = IF r.open THEN @ \/ MeetsCriteria(m) ELSE @,
                      !.min_knee = IF r.open /\ m.knee < @ THEN m.knee ELSE @,
                      !.later = IF r.open THEN AddMarks(@, m) ELSE @]

CountsAfter(c, branch) ==
    CASE branch = "start" -> CountStart(c)
      [] branch = "complete" -> CountComplete(c)
      [] OTHER -> c

FrameHistory(h, branch, landmarks) ==
    [run |-> CountsAfter(h.run, branch),
     epoch |-> CountsAfter(h.epoch, branch),
     rep |-> RepetitionAfter(h.rep, branch, landmarks.m),
     band_only |-> h.band_only /\ landmarks.len >= 33 /\ InBand(landmarks.m.knee),
     last |-> IF landmarks.len >= 33 THEN Some(landmarks.m) ELSE h.last,
     last_branch |-> IF landmarks.len >= 33 THEN branch ELSE h.last_branch,
     reset_from |-> NoReset]

PollHistory(h) == [h EXCEPT !.run = CountPoll(@), !.epoch = CountPoll(@)]

ResetFrom(d) ==
    [done |-> TRUE, squatting |-> d.is_currently_squatting,
     pending |-> d.squat_just_completed]

(***************************************************************************)
(* The calls.  What a call returns is the ...Result operator of the state  *)
(* it is made in; fired names the branch of the state machine the last     *)
(* detect_squat call took ("-" when none was made since construction or    *)
(* the last reset).                                                        *)
(***************************************************************************)
Init ==
    /\ detector = NewDetector
    /\ fired = "-"
    /\ hist = NewHistory

DetectSquatWithin(limit) ==
    \E landmarks \in Frames :
        /\ detector.frame_count < limit
        /\ detector' = DetectSquat(detector, landmarks)
        /\ fired' = DetectSquatBranch(detector, landmarks)
        /\ hist' = FrameHistory(hist, DetectSquatBranch(detector, landmarks),
                                landmarks)

DetectSquatCall == DetectSquatWithin(MaxFrames)

HasSquatJustCompletedCall ==
    /\ detector' = HasSquatJustCompleted(detector)
    /\ hist' = PollHistory(hist)
    /\ UNCHANGED fired

WasLastSquatPerfectCall == UNCHANGED vars

GetSquatCountCall == UNCHANGED vars

GetFeedbackDataCall == UNCHANGED vars

GetSquatCompletionFeedbackCall == \E was_perfect \in BOOLEAN : UNCHANGED vars

ResetSquatCountCall ==
    /\ detector' = ResetSquatCount(detector)
    /\ fired' = "-"
    /\ hist' = [NewHistory EXCEPT !.reset_from = ResetFrom(detector)]

Next ==
    \/ DetectSquatCall
    \/ HasSquatJustCompletedCall
    \/ WasLastSquatPerfectCall
    \/ GetSquatCountCall
    \/ GetFeedbackDataCall
    \/ GetSquatCompletionFeedbackCall
    \/ ResetSquatCountCall

Spec == Init /\ [][Next]_vars

(***************************************************************************)
(* The same calls with the run counts carried across resets.               *)
(***************************************************************************)
DetectSquatRunCall == DetectSquatWithin(MaxRunFrames)

ResetSquatCountRunCall ==
    /\ detector' = ResetSquatCount(detector)
    /\ fired' = "-"
    /\ hist' = [NewHistory EXCEPT !.run = hist.run,
                                  !.reset_from = ResetFrom(detector)]

NextRun ==
    \/ DetectSquatRunCall
    \/ HasSquatJustCompletedCall
    \/ WasLastSquatPerfectCall
    \/ GetSquatCountCall
    \/ GetFeedbackDataCall
    \/ GetSquatCompletionFeedbackCall
    \/ ResetSquatCountRunCall

SpecRun == Init /\ [][NextRun]_vars

(***************************************************************************)
(* Two detectors given the same calls, their frames equal except in the    *)
(* back lean.  hist holds the second detector and the branch its last      *)
(* detect_squat call took.                                                 *)
(***************************************************************************)
WithBackLean(landmarks, back) == [landmarks EXCEPT !.m.back = back]

InitPair ==
    /\ detector = NewDetector
    /\ fired = "-"
    /\ hist = [other |-> NewDetector, fired |-> "-"]

DetectSquatPairCall ==
    \E landmarks \in Frames, back \in BackLeans :
        /\ detector.frame_count < MaxPairFrames
        /\ detector' = DetectSquat(detector, landmarks)
        /\ fired' = DetectSquatBranch(detector, landmarks)
        /\ hist' = [other |-> DetectSquat(hist.other,
                                          WithBackLean(landmarks, back)),
                    fired |-> DetectSquatBranch(hist.other,
                                                WithBackLean(landmarks, back))]

HasSquatJustCompletedPairCall ==
    /\ detector' = HasSquatJustCompleted(detector)
    /\ hist' = [hist EXCEPT !.other = HasSquatJustCompleted(@)]
    /\ UNCHANGED fired

ResetSquatCountPairCall ==
    /\ detector' = ResetSquatCount(detector)
    /\ fired' = "-"
    /\ hist' = [other |-> ResetSquatCount(hist.other), fired |-> "-"]

NextPair ==
    \/ DetectSquatPairCall
    \/ HasSquatJustCompletedPairCall
    \/ ResetSquatCountPairCall

SpecPair == InitPair /\ [][NextPair]_vars

(***************************************************************************)
(* A fresh detector fed valid frames whose knee angle goes standing,       *)
(* standing, down to 70 and up again; the frame at the bottom has good     *)
(* hips and depth, the other measurements are free.  No reset.             *)
(***************************************************************************)
ScenarioKnees == <<170, 165, 100, 70, 95, 135>>

ScenarioMeasurements(i) ==
    {m \in [knee : {ScenarioKnees[i]}, hip : HipAngles,
            back : BackLeans, depth : HipDepths] :
        ScenarioKnees[i] = 70 => HipsGood(m.hip) /\ DepthGood(m.depth)}

DetectSquatScenarioCall ==
    /\ detector.frame_count < Len(ScenarioKnees)
    /\ \E landmarks \in ValidFrames(ScenarioMeasurements(detector.frame_count + 1)) :
        /\ detector' = DetectSquat(detector, landmarks)
        /\ fired' = DetectSquatBranch(detector, landmarks)
        /\ hist' = FrameHistory(hist, DetectSquatBranch(detector, landmarks),
                                landmarks)

NextScenario ==
    \/ DetectSquatScenarioCall
    \/ HasSquatJustCompletedCall
    \/ WasLastSquatPerfectCall
    \/ GetSquatCountCall
    \/ GetFeedbackDataCall

SpecScenario == Init /\ [][NextScenario]_vars

(***************************************************************************)
(* websocket_pose_endpoint of main.py on one session: one step per message *)
(* received, from the receive to the response sent (no await in between).  *)
(* detector is session.detector.  hist holds the last response sent, the   *)
(* branch the detect_squat call made for that message took ("-" when the   *)
(* message made none), session.frame_count, and the numbers of completing  *)
(* calls and of responses with voice feedback so far.  Angles here are     *)
(* whole degrees and the depth ratio whole hundredths, which round(x, 1)   *)
(* and round(x, 2) leave as they are; the echoed landmarks and the         *)
(* timestamp of a response are left out.                                   *)
(***************************************************************************)
InitSocket ==
    /\ detector = NewDetector
    /\ fired = "-"
    /\ hist = [response |-> None, branch |-> "-", frame_count |-> 0,
               completed |-> 0, voiced |-> 0]

\* voice_feedback after the detect_squat call left the detector as d: None,
\* or any of the strings get_squat_completion_feedback can return.
VoiceFeedbacks_OnlyPerfect(d) ==
    IF HasSquatJustCompletedResult(d) /\ WasLastSquatPerfect(HasSquatJustCompleted(d))
    THEN {Some(phrase) :
            phrase \in GetSquatCompletionFeedbackResults(
                            HasSquatJustCompleted(d),
                            WasLastSquatPerfect(HasSquatJustCompleted(d)))}
    ELSE {None}

VoiceFeedbacks(d) ==
    IF HasSquatJustCompletedResult(d)
    THEN {Some(phrase) :
            phrase \in GetSquatCompletionFeedbackResults(
                            HasSquatJustCompleted(d),
                            WasLastSquatPerfect(HasSquatJustCompleted(d)))}
    ELSE {None}

PoseResults(d, analysis, voice_feedback) ==
    [type |-> "pose_results", squat_analysis |-> analysis,
     squat_count |-> GetSquatCount(d), voice_feedback |-> voice_feedback]

\* A frame message in which a pose was found.
FrameMessage ==
    \E landmarks \in Frames :
        /\ hist.frame_count < MaxSocketFrames
        /\ \E voice_feedback \in VoiceFeedbacks(DetectSquat(detector, landmarks)) :
            /\ detector' = HasSquatJustCompleted(DetectSquat(detector, landmarks))
            /\ fired' = DetectSquatBranch(detector, landmarks)
            /\ hist' = [response |->
                            Some(PoseResults(detector',
                                             DetectSquatResult(detector, landmarks),
                                             voice_feedback)),
                        branch |-> DetectSquatBranch(detector, landmarks),
                        frame_count |-> hist.frame_count + 1,
                        completed |-> hist.completed
                            + (IF DetectSquatBranch(detector, landmarks) = "complete"
                               THEN 1 ELSE 0),
                        voiced |-> hist.voiced
                            + (IF voice_feedback # None THEN 1 ELSE 0)]

\* A frame message in which no pose was found.
NoPoseMessage ==
    /\ hist.frame_count < MaxSocketFrames
    /\ hist' = [hist EXCEPT
                    !.response = Some([type |-> "no_pose",
                                       message |-> "No pose detected"]),
                    !.branch = "-",
                    !.frame_count = @ + 1]
    /\ UNCHANGED <<detector, fired>>

\* A frame message whose image does not decode: no response.
UndecodedFrameMessage == UNCHANGED vars

ResetMessage ==
    /\ detector' = ResetSquatCount(detector)
    /\ fired' = "-"
    /\ hist' = [hist EXCEPT
                    !.response = Some([type |-> "reset_complete",
                                       message |-> "Counter reset"]),
                    !.branch = "-"]

PingMessage ==
    /\ hist' = [hist EXCEPT !.response = Some([type |-> "pong"]), !.branch = "-"]
    /\ UNCHANGED <<detector, fired>>

NextSocket ==
    \/ FrameMessage
    \/ NoPoseMessage
    \/ UndecodedFrameMessage
    \/ ResetMessage
    \/ PingMessage

SpecSocket == InitSocket /\ [][NextSocket]_vars

(***************************************************************************)
(* Properties.                                                             *)
(***************************************************************************)
\* A step made by a detect_squat call: the only call that adds to frame_count.
IsDetectStep == detector'.frame_count = detector.frame_count + 1

LifetimeFrames(d) ==
    <<d.knee_correct_frames, d.hip_correct_frames, d.back_correct_frames,
      d.total_frames_in_correct_squats>>

TransientFrames(d) ==
    <<d.current_squat_knee_frames, d.current_squat_hip_frames,
      d.current_squat_back_frames, d.current_squat_total_frames>>

\* What a call that completes a repetition does to the counts.
CompletionCounts(perfect) ==
    /\ detector'.last_squat_was_perfect = perfect
    /\ detector'.total_attempts = detector.total_attempts + 1
    /\ detector'.correct_squats = detector.correct_squats + (IF perfect THEN 1 ELSE 0)
    /\ detector'.missed_squats = detector.missed_squats + (IF perfect THEN 0 ELSE 1)

\* C1 (as amended): a completed repetition is classified perfect exactly when
\* some frame after its start frame, up to and including the completing frame,
\* met the knee, hip and depth criteria together and the lowest knee angle over
\* all its frames, the start frame included, was below 110; a perfect one adds 1
\* to the perfect count and to attempts, any other adds 1 to the imperfect count
\* and to attempts.
C1_PerfectClassification ==
    [][IsDetectStep /\ fired' = "complete"
        => CompletionCounts(hist'.rep.later_perfect /\ hist'.rep.min_knee < 110)]_vars

\* C1 as claimed: the frame that meets the criteria may be any frame of the
\* repetition, the start frame included.
C1_AsClaimed ==
    [][IsDetectStep /\ fired' = "complete"
        => CompletionCounts((hist'.rep.start_perfect \/ hist'.rep.later_perfect)
                                /\ hist'.rep.min_knee < 110)]_vars

\* C1 witness: a repetition has just completed, and both a perfect and an
\* imperfect repetition have been classified.
C1_Witness ==
    /\ fired = "complete"
    /\ detector.correct_squats >= 1
    /\ detector.missed_squats >= 1

\* C2 (as amended): every complete is preceded by exactly one start since the
\* most recent complete or reset.
C2_StartCompletePairing == fired = "complete" => hist.epoch.starts_closed = 1

\* C2 as claimed: exactly one start since the most recent complete, with resets
\* interleaved arbitrarily.
C2_AsClaimed == fired = "complete" => hist.run.starts_closed = 1

\* C2 witness: the second repetition since the last reset has just completed.
C2_Witness == fired = "complete" /\ detector.total_attempts = 2

\* C3: while every call since the initial standing state was a valid frame with
\* knee angle in [120, 130), no start and no complete has fired and attempts,
\* perfect, imperfect and the lifetime frame totals are what they were.
C3_HysteresisStable ==
    hist.band_only =>
        /\ fired \in {"-", "none"}
        /\ detector.was_standing /\ ~detector.is_currently_squatting
        /\ detector.total_attempts = 0
        /\ detector.correct_squats = 0
        /\ detector.missed_squats = 0
        /\ detector.squat_count = 0
        /\ LifetimeFrames(detector) = <<0, 0, 0, 0>>

\* C3 witness: two or more frames, all of them in the band.
C3_Witness == hist.band_only /\ detector.frame_count >= 2

\* C4: the four lifetime frame totals change only in a detect_squat call that
\* completes a repetition classified perfect, each then growing by the matching
\* per-repetition counter; any other detect_squat call leaves them alone, and
\* outside detect_squat only reset changes them.
C4_AccumulationIsolated ==
    [][/\ IsDetectStep /\ fired' = "complete" /\ detector'.last_squat_was_perfect
            => \A i \in 1..4 :
                LifetimeFrames(detector')[i]
                    = LifetimeFrames(detector)[i] + TransientFrames(detector')[i]
       /\ IsDetectStep /\ ~(fired' = "complete" /\ detector'.last_squat_was_perfect)
            => LifetimeFrames(detector') = LifetimeFrames(detector)
       /\ ~IsDetectStep
            => \/ LifetimeFrames(detector') = LifetimeFrames(detector)
               \/ hist'.reset_from.done]_vars

\* C4 witness: an imperfect repetition has just completed after a perfect one
\* had put frames into the lifetime totals.
C4_Witness ==
    /\ fired = "complete"
    /\ ~detector.last_squat_was_perfect
    /\ detector.total_frames_in_correct_squats > 0

\* C5 (as amended): has_squat_just_completed returns true exactly when a
\* repetition completed since the previous poll or reset (or construction), so
\* a poll that follows a poll returns false.
C5_OneShotSignal ==
    HasSquatJustCompletedResult(detector) = hist.epoch.completed_since_poll

\* C5 as claimed: true exactly when a repetition completed since the previous
\* poll, whatever calls came between.
C5_AsClaimed ==
    HasSquatJustCompletedResult(detector) = hist.run.completed_since_poll

\* C5 witness: the last detect_squat call completed a repetition and the
\* signal has been polled away since.
C5_Witness == fired = "complete" /\ ~detector.squat_just_completed

ZeroFeedbackData ==
    [total |-> 0, correct |-> 0, missed |-> 0,
     kneePercentage |-> 0, hipPercentage |-> 0, backPercentage |-> 0,
     kneeCorrectFrames |-> 0, hipCorrectFrames |-> 0, backCorrectFrames |-> 0,
     totalFramesInCorrectSquats |-> 0]

\* C6: after reset, from whatever state it was called in, the detector is as
\* constructed; the summary is all zero and the count 0; a frame with knee
\* angle >= 130 completes nothing and raises no signal; a second reset changes
\* nothing.
C6_Reset ==
    hist.reset_from.done =>
        /\ detector = NewDetector
        /\ GetFeedbackData(detector) = ZeroFeedbackData
        /\ GetSquatCount(detector) = 0
        /\ \A lm \in ValidFrames(AllMeasurements) :
            lm.m.knee >= 130 =>
                /\ DetectSquatBranch(detector, lm) # "complete"
                /\ ~DetectSquat(detector, lm).squat_just_completed
        /\ ResetSquatCount(detector) = detector

\* C6 witness: reset was called in the middle of a repetition with an unpolled
\* completion pending.
C6_Witness ==
    hist.reset_from.done /\ hist.reset_from.squatting /\ hist.reset_from.pending

\* C7: in every state, detect_squat on an absent frame or one of fewer than 33
\* keypoints adds 1 to frame_count, changes nothing else and returns the zeroed
\* analysis with its fixed message.
C7_InvalidFrame ==
    \A lm \in AllFrames :
        (lm.len < 33) =>
            /\ DetectSquat(detector, lm)
                = [detector EXCEPT !.frame_count = detector.frame_count + 1]
            /\ DetectSquatResult(detector, lm)
                = [is_squat_position |-> FALSE, knee_angle |-> 0, hip_angle |-> 0,
                   back_angle |-> 0, hip_depth |-> 0,
                   form_feedback |-> "No pose detected",
                   checkpoint_results |-> <<>>]

\* C7 witness: an invalid frame was processed in the middle of a repetition.
C7_Witness ==
    /\ fired = "invalid"
    /\ detector.is_currently_squatting
    /\ detector.last_squat_analysis # None

\* C8: was_standing and is_currently_squatting are never both true.
C8_NeverBoth == ~(detector.was_standing /\ detector.is_currently_squatting)

\* C8 witness: a second repetition has started: squatting, not standing.
C8_Witness ==
    /\ fired = "start"
    /\ detector.is_currently_squatting
    /\ detector.total_attempts >= 1

\* C9: across a detect_squat call each per-repetition counter stays, grows by 1
\* or becomes 0; it grows only when the call began inside a repetition; a call
\* that fires start leaves all four at 0 and no other call zeroes one.
C9_TransientCounters ==
    [][IsDetectStep =>
        \A i \in 1..4 :
            /\ TransientFrames(detector')[i]
                \in {TransientFrames(detector)[i], TransientFrames(detector)[i] + 1, 0}
            /\ TransientFrames(detector')[i] > TransientFrames(detector)[i]
                => detector.is_currently_squatting
            /\ fired' = "start" => TransientFrames(detector')[i] = 0
            /\ fired' # "start"
                => TransientFrames(detector')[i]
                    \in {TransientFrames(detector)[i], TransientFrames(detector)[i] + 1}]_vars

\* C9 witness: a later repetition has started, zeroing counters the one before
\* had raised.
C9_Witness ==
    /\ fired = "start"
    /\ detector.total_attempts >= 1
    /\ detector.current_squat_total_frames = 0

LabelList(hips, knees, depth) ==
    (IF hips THEN <<"Hips">> ELSE <<>>)
        \o (IF knees THEN <<"Knees">> ELSE <<>>)
        \o (IF depth THEN <<"Depth">> ELSE <<>>)

FixMessage(labels) ==
    "Fix: " \o (IF Len(labels) = 1 THEN labels[1] ELSE labels[1] \o ", " \o labels[2])

RuleFeedback(m, inside, hips_label) ==
    IF MeetsCriteria(m) /\ inside THEN "Perfect form!"
    ELSE IF inside
         THEN FixMessage(LabelList(hips_label,
                                   ~(50 <= m.knee /\ m.knee <= 110),
                                   ~(m.depth >= 85)))
    ELSE "Ready to squat"

\* The measurements an analysis reports.
Measured(a) ==
    [knee |-> a.knee_angle, hip |-> a.hip_angle,
     back |-> a.back_angle, depth |-> a.hip_depth]

HipsOff(m) == ~(60 <= m.hip /\ m.hip <= 120)

HipsOrDepthOff(m) == ~((60 <= m.hip /\ m.hip <= 120) /\ m.depth >= 85)

BadSquatRule(min_knee, m) ==
    IF min_knee >= 110 THEN "Go deeper. Bend your knees more"
    ELSE IF m.knee < 50 \/ m.knee > 110
    THEN "Please adjust your form. Check your knee position"
    ELSE IF m.hip < 60 \/ m.hip > 120
    THEN "Please adjust your form. Push your hips back"
    ELSE IF m.depth < 85 THEN "Please adjust your form. Go deeper"
    ELSE "Please adjust your form"

\* C11: the completion feedback for an imperfect repetition is 'Please adjust
\* your form' when no valid frame has been analysed since construction or
\* reset; otherwise it is the first match of the ordered checks (minimum knee
\* of the repetition >= 110, knee outside [50,110], hip outside [60,120],
\* depth < 0.85, none) on the last valid frame's measurements.
C11_BadSquatFeedback ==
    /\ hist.last = None =>
        GetSquatCompletionFeedbackResults(detector, FALSE)
            = {"Please adjust your form"}
    /\ hist.last # None =>
        GetSquatCompletionFeedbackResults(detector, FALSE)
            = {BadSquatRule(hist.rep.min_knee, hist.last[1])}

\* C11 witness: a repetition that reached below 110 was just completed as
\* imperfect and the feedback is decided by the second check.
C11_Witness ==
    /\ fired = "complete"
    /\ ~detector.last_squat_was_perfect
    /\ hist.rep.min_knee < 110
    /\ GetSquatCompletionFeedbackResults(detector, FALSE)
        = {"Please adjust your form. Check your knee position"}

\* A detector without what it records about the back: the back-good frame
\* counters, and the back angle and shoulder flags of the stored analysis.
WithoutShoulders(checkpoints) == [j \in DOMAIN checkpoints \ {11, 12} |-> checkpoints[j]]

WithoutBackAnalysis(a) ==
    IF a = None THEN None
    ELSE Some([a[1] EXCEPT !.back_angle = 0,
                           !.checkpoint_results = WithoutShoulders(@)])

WithoutBack(d) ==
    [d EXCEPT !.back_correct_frames = 0,
              !.current_squat_back_frames = 0,
              !.last_squat_analysis = WithoutBackAnalysis(@)]

WithoutBackData(data) == [data EXCEPT !.backPercentage = 0, !.backCorrectFrames = 0]

\* C12: two detectors given the same calls, with frames that differ only in
\* the back lean, agree after every call on the branch the state machine
\* took, on every field but the back-good counters, on the stored analysis
\* but for its back angle and shoulder flags, on the count and on the
\* summary but for the back percentage and back-good frames.
C12_BackNeverGates ==
    /\ fired = hist.fired
    /\ WithoutBack(detector) = WithoutBack(hist.other)
    /\ GetSquatCount(detector) = GetSquatCount(hist.other)
    /\ HasSquatJustCompletedResult(detector) = HasSquatJustCompletedResult(hist.other)
    /\ WasLastSquatPerfect(detector) = WasLastSquatPerfect(hist.other)
    /\ WithoutBackData(GetFeedbackData(detector))
        = WithoutBackData(GetFeedbackData(hist.other))

\* C12 witness: both detectors counted the same perfect repetition, one with
\* a good back on its frames and one without.
C12_Witness ==
    /\ fired = "complete"
    /\ detector.correct_squats = 1
    /\ hist.other.correct_squats = 1
    /\ detector.back_correct_frames # hist.other.back_correct_frames

\* C13: on a fresh detector fed valid frames with knee angle 170, 165, 100,
\* 70, 95, 135 (hips and depth good on the 70 frame), the first two frames
\* neither start nor complete a repetition and leave the detector as
\* constructed but for the frame count and the stored analysis, the third
\* starts a repetition, the sixth completes it; after it the poll returns true (until it is polled), the last
\* repetition is perfect, the count is 1 and attempts is 1.
C13_Scenario ==
    /\ detector.frame_count \in {1, 2} =>
        /\ fired \notin {"start", "complete"}
        /\ [detector EXCEPT !.frame_count = 0, !.last_squat_analysis = None]
            = NewDetector
    /\ detector.frame_count = 3 => fired = "start"
    /\ detector.frame_count = 6 =>
        /\ fired = "complete"
        /\ hist.epoch.completed_since_poll => HasSquatJustCompletedResult(detector)
        /\ WasLastSquatPerfect(detector)
        /\ GetSquatCount(detector) = 1
        /\ GetFeedbackData(detector).total = 1

\* C13 witness: the six frames were fed and the completion is not polled yet.
C13_Witness ==
    /\ detector.frame_count = 6
    /\ hist.rep.min_knee = 70
    /\ hist.epoch.completed_since_poll
    /\ HasSquatJustCompletedResult(detector)

\* The branch the specification's ordered cases give for a knee angle in a
\* state: start, else complete, else resync to standing, else none.
CaseInOrder(d, knee) ==
    IF d.was_standing /\ knee < 120 THEN "start"
    ELSE IF ~d.was_standing /\ knee >= 130 /\ d.is_currently_squatting THEN "complete"
    ELSE IF knee >= 130 THEN "resync"
    ELSE "none"

\* The no-transition case as the specification words it.
DeadZone(d, knee) == InBand(knee) \/ (knee < 120 /\ d.is_currently_squatting)

\* The state a no-transition frame must leave alone.
KeptByDeadZone(d) ==
    <<d.was_standing, d.is_currently_squatting, d.squat_count, d.total_attempts,
      d.correct_squats, d.missed_squats, LifetimeFrames(d),
      d.squat_just_completed, d.last_squat_was_perfect>>

\* C14: a detect_squat call on a valid frame takes the first of start,
\* complete, resync, none whose condition holds; it takes none exactly when
\* the knee angle is in [120, 130) or is below 120 inside a repetition, and
\* then was_standing, is_currently_squatting, the lifetime counters, the
\* completion signal and the last-perfect flag are what they were.
C14_TransitionCases ==
    [][IsDetectStep /\ fired' # "invalid" =>
        /\ fired' = CaseInOrder(detector, hist'.last[1].knee)
        /\ fired' = "none" <=> DeadZone(detector, hist'.last[1].knee)
        /\ fired' = "none" => KeptByDeadZone(detector') = KeptByDeadZone(detector)]_vars

\* C14 witness: inside a repetition a frame with knee below 120 took no
\* transition.
C14_Witness ==
    /\ fired = "none"
    /\ detector.is_currently_squatting
    /\ detector.current_squat_total_frames >= 1
    /\ hist.last # None /\ hist.last[1].knee < 120

\* The checkpoint map the specification gives for a frame's measurements.
CheckpointRule(m) ==
    [j \in {11, 12, 23, 24, 25, 26, 27, 28} |->
        IF j \in {11, 12} THEN ~(0 <= m.back /\ m.back <= 45)
        ELSE IF j \in {23, 24}
        THEN ~((60 <= m.hip /\ m.hip <= 120) /\ m.depth >= 85)
        ELSE IF j \in {25, 26} THEN ~(50 <= m.knee /\ m.knee <= 110)
        ELSE ~(m.depth >= 85)]

\* C15: the checkpoint map returned for a valid frame, in any state, has
\* exactly the joints 11, 12, 23, 24, 25, 26, 27, 28; shoulders are flagged
\* when the back is not good, hips when hips or depth are not good, knees
\* when knees are not good, ankles when depth is not good; left and right
\* carry the same flag.
C15_CheckpointMap ==
    hist.last # None =>
        /\ detector.last_squat_analysis # None
        /\ detector.last_squat_analysis[1].checkpoint_results
            = CheckpointRule(hist.last[1])

\* C15 witness: a frame with good hip angle and bad depth was answered with
\* the hips flagged.
C15_Witness ==
    /\ hist.last # None
    /\ hist.last[1].hip = 120 /\ hist.last[1].depth = 80
    /\ detector.last_squat_analysis[1].checkpoint_results[23]
    /\ detector.last_squat_analysis[1].checkpoint_results[24]

\* A step made by a detect_squat call that completed a repetition.
IsCompleteStep == IsDetectStep /\ fired' = "complete"

\* The state after reset_squat_count, or a step that stays in it.
IsAfterReset == fired' = "-" /\ detector'.frame_count = 0

\* C16: was_last_squat_perfect returns the classification of the repetition
\* completed last: a completing detect_squat call sets it to true when it
\* counts the repetition perfect and to false when it counts it imperfect
\* (perfect being a frame of the repetition after its start frame that
\* met the criteria and a minimum knee angle below 110), and no other call
\* but reset changes it: not the poll, not an invalid frame, not a frame
\* that completes nothing.
C16_LastPerfect ==
    [][/\ IsCompleteStep =>
            /\ WasLastSquatPerfect(detector')
                = (detector'.correct_squats = detector.correct_squats + 1)
            /\ (~WasLastSquatPerfect(detector'))
                = (detector'.missed_squats = detector.missed_squats + 1)
            /\ WasLastSquatPerfect(detector')
                = (hist'.rep.later_perfect /\ hist'.rep.min_knee < 110)
       /\ ~IsCompleteStep /\ ~IsAfterReset =>
            WasLastSquatPerfect(detector') = WasLastSquatPerfect(detector)]_vars

\* C16 witness: a perfect repetition was completed and polled, frames that
\* completed nothing followed, and the answer is still perfect.
C16_Witness ==
    /\ WasLastSquatPerfect(detector)
    /\ ~detector.squat_just_completed
    /\ fired \in {"start", "none", "resync", "invalid"}
    /\ detector.correct_squats = 1

\* p is floor(100 * good / total), and 0 when total is 0.
IsFloorPercent(p, good, total) ==
    IF total = 0 THEN p = 0
    ELSE p \in Nat /\ p * total <= 100 * good /\ 100 * good < (p + 1) * total

\* The detector with the knee-good and total lifetime frame counters given.
WithKneeFrames(d, good, total) ==
    [d EXCEPT !.knee_correct_frames = good,
              !.total_frames_in_correct_squats = total]

\* C17: in every reachable state get_feedback_data reports the knee, hip and
\* back percentages as floor(100 * good frames / total frames in perfect
\* repetitions) of the lifetime counters, 0 when the total is 0; with 80
\* knee-good frames of 120 the knee percentage is 66.
C17_Percentages ==
    /\ IsFloorPercent(GetFeedbackData(detector).kneePercentage,
                      detector.knee_correct_frames,
                      detector.total_frames_in_correct_squats)
    /\ IsFloorPercent(GetFeedbackData(detector).hipPercentage,
                      detector.hip_correct_frames,
                      detector.total_frames_in_correct_squats)
    /\ IsFloorPercent(GetFeedbackData(detector).backPercentage,
                      detector.back_correct_frames,
                      detector.total_frames_in_correct_squats)
    /\ GetFeedbackData(WithKneeFrames(detector, 80, 120)).kneePercentage = 66

\* C17 witness: a perfect repetition of three tracked frames, one of them
\* with good knees, is in the lifetime counters: 33 percent.
C17_Witness ==
    /\ detector.total_frames_in_correct_squats = 3
    /\ detector.knee_correct_frames = 1
    /\ GetFeedbackData(detector).kneePercentage = 33

\* C18: the tracking of a frame runs before its transition: the transient
\* frame counters and the best-form flag of a repetition cover the valid
\* frames after its start frame up to and including its completing frame,
\* and the start frame gives only the first value of the minimum knee angle.
C18_TrackedBeforeTransition ==
    /\ TransientFrames(detector) = hist.rep.later
    /\ detector.best_form_this_squat = hist.rep.later_perfect
    /\ detector.lowest_knee_angle_this_squat = hist.rep.min_knee
    /\ fired = "start" =>
        /\ TransientFrames(detector) = <<0, 0, 0, 0>>
        /\ ~detector.best_form_this_squat
        /\ detector.lowest_knee_angle_this_squat = hist.last[1].knee

\* C18 witness: a repetition completed on its third frame after the start
\* frame, and the start frame met the criteria while no later frame did.
C18_Witness ==
    /\ fired = "complete"
    /\ hist.epoch.starts_closed = 1
    /\ hist.rep.start_perfect /\ ~hist.rep.later_perfect
    /\ detector.current_squat_total_frames = 3

\* Every message that is 'Fix: ' and one or two of the three labels in order.
FixMessages ==
    {FixMessage(FirstTwo(labels)) :
        labels \in {LabelList(hips, knees, depth) :
                        hips, knees, depth \in BOOLEAN} \ {<<>>}}

\* The issue list detect_squat builds for measurements.
IssuesOf(m) == Issues(HipsGood(m.hip), KneesGood(m.knee), DepthGood(m.depth))

\* C19: 'Keep going' is never the message of a frame: a valid frame answered
\* inside a repetition whose measurements fail the three criteria has a
\* non-empty issue list and a message starting with 'Fix: '.
C19_NeverKeepGoing ==
    hist.last # None =>
        /\ detector.last_squat_analysis[1].form_feedback # "Keep going"
        /\ hist.rep.open /\ ~MeetsCriteria(hist.last[1]) =>
            /\ IssuesOf(hist.last[1]) # <<>>
            /\ detector.last_squat_analysis[1].form_feedback \in FixMessages

\* C19 witness: inside a repetition a frame with hips and depth both off was
\* answered.
C19_Witness ==
    /\ hist.rep.open
    /\ hist.last # None /\ hist.last[1].hip = 125 /\ hist.last[1].depth = 80
    /\ detector.last_squat_analysis[1].form_feedback = "Fix: Hips, Depth"

\* C20: the message of a frame is made with the inside-repetition flag as the
\* frame's transition left it: the frame that starts a repetition is answered
\* 'Perfect form!' or 'Fix: ...', never 'Ready to squat', and the frame that
\* completes one is answered 'Ready to squat'.
C20_FeedbackAfterTransition ==
    /\ fired = "start" =>
        /\ detector.last_squat_analysis[1].form_feedback
            \in {"Perfect form!"} \cup FixMessages
        /\ detector.last_squat_analysis[1].form_feedback = "Perfect form!"
            <=> MeetsCriteria(hist.last[1])
    /\ fired = "complete" =>
        detector.last_squat_analysis[1].form_feedback = "Ready to squat"

\* C20 witness: the frame that started a repetition met the criteria and was
\* answered 'Perfect form!'.
C20_Witness ==
    /\ fired = "start"
    /\ detector.current_squat_total_frames = 0
    /\ detector.last_squat_analysis[1].form_feedback = "Perfect form!"

\* C21: in every reachable state attempts is perfect plus imperfect and the
\* count is the perfect count; a detect_squat call adds one to attempts when
\* it completes a repetition and leaves attempts alone otherwise.
C21_AttemptsAccount ==
    /\ [](/\ GetFeedbackData(detector).total
                = GetFeedbackData(detector).correct + GetFeedbackData(detector).missed
          /\ GetSquatCount(detector) = GetFeedbackData(detector).correct)
    /\ [][IsDetectStep =>
            detector'.total_attempts
                = detector.total_attempts + (IF fired' = "complete" THEN 1 ELSE 0)]_vars

\* C21 witness: one perfect and one imperfect repetition have completed.
C21_Witness ==
    /\ detector.total_attempts = 2
    /\ detector.correct_squats = 1
    /\ detector.missed_squats = 1
    /\ GetSquatCount(detector) = 1

\* A detector without what every valid frame writes: the frame count, the
\* log mark and the stored analysis.
WithoutFrame(d) ==
    [d EXCEPT !.frame_count = 0, !.last_log_frame = 0, !.last_squat_analysis = None]

\* C22: in every reachable state was_standing is the negation of
\* is_currently_squatting; so a detect_squat call that takes the resync branch
\* changes nothing but what every valid frame writes, also after a reset in
\* the middle of a repetition.
C22_StandingOrSquatting ==
    /\ [](detector.was_standing = ~detector.is_currently_squatting)
    /\ [][IsDetectStep /\ fired' = "resync" =>
            WithoutFrame(detector') = WithoutFrame(detector)]_vars

\* C22 witness: a repetition has completed and a later standing frame took the
\* resync branch.
C22_Witness ==
    /\ fired = "resync"
    /\ detector.total_attempts >= 1
    /\ detector.was_standing /\ ~detector.is_currently_squatting

\* Each of the three per-criterion counts is between 0 and the total.
WithinTotal(frames) == \A i \in 1..3 : 0 <= frames[i] /\ frames[i] <= frames[4]

\* C23: in every reachable state each lifetime good-frame total is between 0
\* and the lifetime total of frames in perfect repetitions, each reported
\* percentage is in 0..100, and each transient per-criterion counter is at
\* most the transient total.
C23_GoodWithinTotal ==
    /\ WithinTotal(LifetimeFrames(detector))
    /\ WithinTotal(TransientFrames(detector))
    /\ GetFeedbackData(detector).kneePercentage \in 0..100
    /\ GetFeedbackData(detector).hipPercentage \in 0..100
    /\ GetFeedbackData(detector).backPercentage \in 0..100

\* C23 witness: a perfect repetition is in the lifetime totals with every
\* frame good for hips and back and not every frame good for knees.
C23_Witness ==
    /\ detector.total_frames_in_correct_squats >= 2
    /\ detector.hip_correct_frames = detector.total_frames_in_correct_squats
    /\ detector.back_correct_frames = detector.total_frames_in_correct_squats
    /\ detector.knee_correct_frames < detector.total_frames_in_correct_squats
    /\ GetFeedbackData(detector).hipPercentage = 100

\* C24: the knee percentage never reaches 100: in every reachable state with
\* a non-zero lifetime frame total the knee-good frames are at most the total
\* less the perfect count (the completing frame of each perfect repetition
\* is counted and its knee angle, at least 130, is not good), so they are
\* fewer than the total and the reported knee percentage is at most 99.
C24_KneeBelowHundred ==
    detector.total_frames_in_correct_squats > 0 =>
        /\ detector.correct_squats >= 1
        /\ detector.knee_correct_frames
            <= detector.total_frames_in_correct_squats - detector.correct_squats
        /\ detector.knee_correct_frames < detector.total_frames_in_correct_squats
        /\ GetFeedbackData(detector).kneePercentage <= 99

\* C24 witness: one perfect repetition of three tracked frames, all but the
\* completing one with good knees.
C24_Witness ==
    /\ detector.correct_squats = 1
    /\ detector.total_frames_in_correct_squats = 3
    /\ detector.knee_correct_frames = 2
    /\ GetFeedbackData(detector).kneePercentage = 66

\* C25: when the last valid frame completed an imperfect repetition, the
\* completion feedback for an imperfect repetition is 'Go deeper. Bend your
\* knees more' if the repetition's minimum knee angle is 110 or more and
\* 'Please adjust your form. Check your knee position' otherwise: the stored
\* analysis is that of the completing frame, whose knee angle is 130 or more.
C25_TwoResultsAfterComplete ==
    hist.last_branch = "complete" /\ ~WasLastSquatPerfect(detector) =>
        /\ detector.last_squat_analysis[1].knee_angle >= 130
        /\ GetSquatCompletionFeedbackResults(detector, FALSE)
            = {IF hist.rep.min_knee >= 110
               THEN "Go deeper. Bend your knees more"
               ELSE "Please adjust your form. Check your knee position"}

\* C25 witness: a repetition that never went below 110 completed with hips
\* off on its completing frame, an invalid frame followed, and the feedback
\* is the first of the two.
C25_Witness ==
    /\ hist.last_branch = "complete" /\ fired = "invalid"
    /\ ~WasLastSquatPerfect(detector)
    /\ hist.rep.min_knee = 110
    /\ hist.last[1].hip = 125
    /\ GetSquatCompletionFeedbackResults(detector, FALSE)
        = {"Go deeper. Bend your knees more"}

\* C26: in the websocket handler a pose_results response carries voice
\* feedback exactly when the detect_squat call made for its frame completed
\* a repetition; so far as many responses carried voice feedback as calls
\* completed a repetition; and the completion signal is never set between
\* two messages.
C26_VoiceIffComplete ==
    /\ hist.response # None /\ hist.response[1].type = "pose_results" =>
        (hist.response[1].voice_feedback # None <=> hist.branch = "complete")
    /\ hist.voiced = hist.completed
    /\ ~detector.squat_just_completed

\* C26 witness: two repetitions completed on this session, the second one
\* imperfect and answered with voice feedback in the last response.
C26_Witness ==
    /\ hist.completed = 2
    /\ hist.branch = "complete"
    /\ hist.response[1].type = "pose_results"
    /\ hist.response[1].voice_feedback
        = Some("Please adjust your form. Check your knee position")

====
